---- MODULE Spec2Model ----
(***************************************************************************)
(* Model of the load cycle of unicorn_extractor.py: one pass of the main   *)
(* loop reads a batch, reconciles dim_date, reconciles dim_company one     *)
(* company at a time, and upserts fact_unicorn_snapshot one row at a time. *)
(* Every storage call may raise; the tables hold committed data only,      *)
(* since every write is followed by connection.commit() or undone by       *)
(* connection.rollback().                                                  *)
(***************************************************************************)
EXTENDS Integers, Sequences, FiniteSets, Bags, TLC

\* ---------------------------------------------------------------- bounds
MaxCycles == 2
MaxRows == 2
MaxDates == 2
MaxLen == 4

\* ---------------------------------------------------------------- inputs
\* The company names and the two observations (all thirteen columns differ
\* between them) the batches of the model are built from.
CompanyNames == {"Acme", "Beta"}
Observations == {"x", "y"}

\* datetime.now().date(): day d of the model is 2024-01-(d+4); day 1 is a Friday.
Dates == 1 .. MaxDates

\* One row of df_transformed after the type conversions of lines 90-119.
TransformedRow(name, o) ==
    [ company_name             |-> name,
      industry                 |-> IF o = "x" THEN "Fintech" ELSE "AI",
      country                  |-> IF o = "x" THEN "US" ELSE "IN",
      city                     |-> IF o = "x" THEN "NYC" ELSE "Pune",
      founded_year             |-> IF o = "x" THEN 2015 ELSE 2016,
      date_joined_unicorn_club |-> IF o = "x" THEN 1 ELSE 2,
      select_investors         |-> IF o = "x" THEN "Sequoia" ELSE "Accel",
      valuation_billion        |-> IF o = "x" THEN 2000 ELSE 3000,
      total_raised_million     |-> IF o = "x" THEN 200 ELSE 300,
      financial_stage          |-> IF o = "x" THEN "IPO" ELSE "Acquired",
      investors_count          |-> IF o = "x" THEN 10 ELSE 11,
      deal_terms               |-> IF o = "x" THEN "1" ELSE "2",
      portfolio_exits          |-> IF o = "x" THEN "0" ELSE "3" ]

TransformedRows == { TransformedRow(n, o) : n \in CompanyNames, o \in Observations }

RECURSIVE SeqsUpTo(_, _)
SeqsUpTo(S, n) ==
    IF n = 0 THEN { <<>> }
    ELSE LET shorter == SeqsUpTo(S, n - 1)
         IN  shorter \cup { Append(s, x) : s \in { t \in shorter : Len(t) = n - 1 }, x \in S }

\* What pd.read_csv plus the transformation can hand to the load, the empty
\* frame included.
Batches == SeqsUpTo(TransformedRows, MaxRows)

\* ------------------------------------------------------- in-memory values
\* A cell of the company_key column of df_transformed: an integer key, the
\* float NaN, or the Python None.
KeyCell(k) == [na |-> "", v |-> k]
NaN == [na |-> "NaN", v |-> 0]
PyNone == [na |-> "None", v |-> 0]
IsMissing(c) == c.na # ""

EmptyMap == [d \in {} |-> 0]

VARIABLES
    pc,                     \* where the main loop stands
    cycle,                  \* number of the current pass of `while True`
    status,                 \* how the current cycle ended, "Running" before
    failed_at,              \* the call that raised and ended the cycle, or ""
    df_transformed,         \* the batch of the cycle
    clock,                  \* the day datetime.now() falls on
    load_date,              \* the load_date column (one value per cycle)
    existing_date_map,      \* full_date -> date_key, as built by the date step
    load_date_key,          \* the load_date_key column (one value per cycle)
    dates_inserted,         \* len(new_dates_to_insert) of the cycle
    company_key,            \* the company_key column: row index -> cell
    company_key_dtype,      \* "" while the column does not exist
    comp_pos,               \* position of the company loop in dim_company_df
    fact_pos,               \* position of the fact loop in df_fact
    rows_inserted_company,
    rows_updated_company,
    rows_inserted_fact,
    rows_skipped_fact,
    comp_log,               \* outcome of each iteration of the company loop
    fact_log,               \* outcome of each iteration of the fact loop
    dim_date,               \* table dim_date (committed rows)
    dim_company,            \* table dim_company (committed rows)
    fact_unicorn_snapshot,  \* table fact_unicorn_snapshot (committed rows, a bag)
    date_key_seq,           \* next value of dim_date.date_key
    company_key_seq,        \* next value of dim_company.company_key
    cycle_start,            \* the three tables as the cycle found them
    prev_run,               \* <<input and result of the previous cycle>> when it ran clean
    prev_date_run,          \* <<dates and mapping of the latest completed date step>>
    val_str,                \* the argument of clean_currency_value
    cleaned                 \* whether it was called, and what it returned

db == <<dim_date, dim_company, fact_unicorn_snapshot, date_key_seq, company_key_seq>>
frame == <<df_transformed, load_date, clock>>
date_state == <<existing_date_map, load_date_key, dates_inserted>>
company_state == <<company_key, company_key_dtype, comp_pos, rows_inserted_company,
                   rows_updated_company, comp_log>>
fact_state == <<fact_pos, rows_inserted_fact, rows_skipped_fact, fact_log>>
history == <<cycle_start, prev_run, prev_date_run>>
currency == <<val_str, cleaned>>
vars == <<pc, cycle, status, failed_at, frame, date_state, company_state, fact_state,
          db, history, currency>>

\* ------------------------------------------------------------- dim_date
\* dim_date_df of lines 135-142: the derived columns of one date.
DimDateRow(d) ==
    [ full_date   |-> d,
      year        |-> 2024,
      month       |-> 1,
      day         |-> d + 4,
      day_of_week |-> (d + 3) % 7,
      is_weekday  |-> ((d + 3) % 7) < 5 ]

\* {row[0]: row[1] for row in existing_dates_query}: a later row of the same
\* full_date replaces an earlier one, rows coming in key order.
SelectDateMap_empty(table) == EmptyMap
SelectDateMap(table) ==
    [ d \in { r.full_date : r \in table } |->
        LET keys == { r.date_key : r \in { q \in table : q.full_date = d } }
        IN  CHOOSE k \in keys : \A j \in keys : j <= k ]

\* dim_date_df[~dim_date_df['full_date'].isin(existing_date_map.keys())]
NewDatesToInsert_all(unique_dates, date_map) == unique_dates
NewDatesToInsert(unique_dates, date_map) ==
    { d \in unique_dates : d \notin DOMAIN date_map }

\* SELECT full_date, date_key FROM dim_date WHERE full_date IN :dates (line 155)
RequeryDates(table, dates) ==
    { <<r.full_date, r.date_key>> : r \in { q \in table : q.full_date \in dates } }

\* for d, dk in new_inserted_dates_query: existing_date_map[d] = dk
MergeDates(date_map, pairs) ==
    [ d \in DOMAIN date_map \cup { p[1] : p \in pairs } |->
        IF \E p \in pairs : p[1] = d
          THEN LET keys == { p[2] : p \in { q \in pairs : q[1] = d } }
               IN  CHOOSE k \in keys : \A j \in keys : j <= k
          ELSE date_map[d] ]

\* to_sql(..., if_exists='append'): one new row per date, keys from the sequence.
\* The batch of a cycle holds one load date, so at most one row is added.
AppendDates(table, new_dates, seq) ==
    table \cup { [date_key |-> seq] @@ DimDateRow(d) : d \in new_dates }

\* ----------------------------------------------------------- dim_company
RECURSIVE SortedSeq(_)
SortedSeq(S) ==
    IF S = {} THEN <<>>
    ELSE LET m == CHOOSE x \in S : \A y \in S : x <= y
         IN  <<m>> \o SortedSeq(S \ {m})

\* drop_duplicates(subset=['company_name']): the index of the first row of
\* each company name, in frame order.
DimCompanyDf_keep_last(df) ==
    SortedSeq({ i \in 1 .. Len(df) :
                  \A j \in (i + 1) .. Len(df) : df[j].company_name # df[i].company_name })
DimCompanyDf(df) ==
    SortedSeq({ i \in 1 .. Len(df) :
                  \A j \in 1 .. (i - 1) : df[j].company_name # df[i].company_name })

\* SELECT company_key FROM dim_company WHERE company_name = :company_name,
\* fetchone(): the set is empty when there is no such row.
LookupCompany_never(table, name) == {}
LookupCompany(table, name) ==
    LET keys == { r.company_key : r \in { q \in table : q.company_name = name } }
    IN  IF keys = {} THEN {} ELSE { CHOOSE k \in keys : \A j \in keys : k <= j }

\* insert_update_data bound into the INSERT of lines 191-196.
CompanyRowOf(key, row_data) ==
    [ company_key              |-> key,
      company_name             |-> row_data.company_name,
      industry                 |-> row_data.industry,
      country                  |-> row_data.country,
      city                     |-> row_data.city,
      founded_year             |-> row_data.founded_year,
      date_joined_unicorn_club |-> row_data.date_joined_unicorn_club,
      select_investors         |-> row_data.select_investors ]

UpdateCompany_rekeys(table, row_data) ==
    { IF r.company_name = row_data.company_name
        THEN CompanyRowOf(r.company_key + 1, row_data)
        ELSE r : r \in table }
UpdateCompany_skips_investors(table, row_data) ==
    { IF r.company_name = row_data.company_name
        THEN [CompanyRowOf(r.company_key, row_data)
                EXCEPT !.select_investors = r.select_investors]
        ELSE r : r \in table }
\* UPDATE dim_company SET ... WHERE company_name = :company_name
UpdateCompany(table, row_data) ==
    { IF r.company_name = row_data.company_name
        THEN CompanyRowOf(r.company_key, row_data)
        ELSE r : r \in table }

\* df_transformed.loc[df_transformed['company_name'] == name, 'company_key'] = int(company_key)
\* A column created by an integer assignment is float64.
AssignKey(col, df, name, key) ==
    [ i \in 1 .. Len(df) |-> IF df[i].company_name = name THEN KeyCell(key) ELSE col[i] ]

\* df_transformed.loc[..., 'company_key'] = None: a float64 column stores NaN,
\* an object column stores None.
AssignNone(col, df, name, dtype) ==
    [ i \in 1 .. Len(df) |->
        IF df[i].company_name = name
          THEN (IF dtype = "object" THEN PyNone ELSE NaN)
          ELSE col[i] ]

\* The dtype of the company_key column after `= None`: an existing column
\* keeps its dtype; a column this assignment creates is object or float64,
\* depending on the pandas release.
DtypeAfterNone(dtype) == IF dtype = "" THEN {"object", "float64"} ELSE {dtype}

\* ------------------------------------------------- fact_unicorn_snapshot
\* row_data.to_dict() bound into the INSERT of lines 229-239.
FactRowOf(date_key, comp_key, row_data) ==
    [ load_date_key        |-> date_key,
      company_key          |-> comp_key,
      valuation_billion    |-> row_data.valuation_billion,
      total_raised_million |-> row_data.total_raised_million,
      financial_stage      |-> row_data.financial_stage,
      investors_count      |-> row_data.investors_count,
      deal_terms           |-> row_data.deal_terms,
      portfolio_exits      |-> row_data.portfolio_exits ]

SameFactKey(r, q) ==
    r.load_date_key = q.load_date_key /\ r.company_key = q.company_key

\* The rows of the table that conflict with `row` on the unique key.
Conflicting(table, row) == { r \in BagToSet(table) : SameFactKey(r, row) }

\* The table without the rows of the set `rows`.
Without(table, rows) == [ r \in BagToSet(table) \ rows |-> table[r] ]

UpsertFact_insert_only(table, row) == table (+) SetToBag({row})
UpsertFact_keep_exits(table, row) ==
    IF Conflicting(table, row) # {}
      THEN Without(table, Conflicting(table, row))
             (+) SetToBag({ [row EXCEPT !.portfolio_exits = r.portfolio_exits] :
                              r \in Conflicting(table, row) })
      ELSE table (+) SetToBag({row})
\* INSERT ... ON CONFLICT (load_date_key, company_key) DO UPDATE SET <the six
\* other columns> = EXCLUDED.<column>
UpsertFact(table, row) ==
    IF Conflicting(table, row) # {}
      THEN Without(table, Conflicting(table, row)) (+) SetToBag({row})
      ELSE table (+) SetToBag({row})

\* connection.rollback(): the table is again what the last commit left, the
\* writes of the open transaction (`working`) are gone.
Rollback_keeps(committed, working) == working
Rollback(committed, working) == committed

\* --------------------------------------------------- clean_currency_value
\* A text is a sequence of characters. The characters cover the currency sign,
\* the thousands separator, blanks, both unit letters, digits, the decimal
\* point, the exponent letter and the letters of "None" / "none".
Alphabet == {"$", ",", " ", "B", "M", "0", "1", "5", ".", "N", "n", "o", "e"}
Texts == SeqsUpTo(Alphabet, MaxLen)
Digits == {"0", "1", "5"}
DigitVal(c) == CASE c = "0" -> 0 [] c = "1" -> 1 [] c = "5" -> 5

\* str.replace(c, ''), `c in s`, str.strip(), str.lower().
RemoveChar(s, c) == SelectSeq(s, LAMBDA x : x # c)
Contains(s, c) == \E i \in 1 .. Len(s) : s[i] = c
Strip(s) ==
    LET kept == { i \in 1 .. Len(s) : s[i] # " " }
    IN  IF kept = {} THEN <<>>
        ELSE SubSeq(s, CHOOSE i \in kept : \A j \in kept : i <= j,
                       CHOOSE i \in kept : \A j \in kept : j <= i)
LowerChar(c) ==
    CASE c = "B" -> "b" [] c = "M" -> "m" [] c = "N" -> "n" [] OTHER -> c
Lower(s) == [ i \in 1 .. Len(s) |-> LowerChar(s[i]) ]

\* A float is kept as the exact decimal m * 10^e, m without trailing zeros.
RECURSIVE Norm(_, _)
Norm(m, e) ==
    IF m = 0 THEN [m |-> 0, e |-> 0]
    ELSE IF m % 10 = 0 THEN Norm(m \div 10, e + 1)
    ELSE [m |-> m, e |-> e]
Times1000(x) == Norm(x.m, x.e + 3)

RECURSIVE DigitsValue(_)
DigitsValue(s) ==
    IF s = <<>> THEN 0
    ELSE 10 * DigitsValue(SubSeq(s, 1, Len(s) - 1)) + DigitVal(s[Len(s)])
AllDigits(s) == \A i \in 1 .. Len(s) : s[i] \in Digits

\* float(text): surrounding blanks are dropped; the text is digits with at most
\* one decimal point and at least one digit, then optionally `e` and at least
\* one digit. <<>> stands for ValueError, <<x>> for the float x.
ParseFloat(s) ==
    LET t     == Strip(s)
        es    == { i \in 1 .. Len(t) : t[i] = "e" }
        epos  == IF es = {} THEN Len(t) + 1 ELSE CHOOSE i \in es : TRUE
        mant  == SubSeq(t, 1, epos - 1)
        expo  == SubSeq(t, epos + 1, Len(t))
        ps    == { i \in 1 .. Len(mant) : mant[i] = "." }
        ppos  == IF ps = {} THEN Len(mant) + 1 ELSE CHOOSE i \in ps : TRUE
        whole == SubSeq(mant, 1, ppos - 1)
        frac  == SubSeq(mant, ppos + 1, Len(mant))
    IN  IF /\ Cardinality(es) <= 1
           /\ Cardinality(ps) <= 1
           /\ AllDigits(whole)
           /\ AllDigits(frac)
           /\ Len(whole) + Len(frac) >= 1
           /\ AllDigits(expo)
           /\ (es # {} => Len(expo) >= 1)
          THEN << Norm(DigitsValue(whole \o frac), DigitsValue(expo) - Len(frac)) >>
          ELSE <<>>

\* A value handed to clean_currency_value: a text, or what read_csv already
\* parsed (a float, or a missing cell).
StrVal(s) == [is_str |-> TRUE, text |-> s, value |-> <<>>]
OtherVal(v) == [is_str |-> FALSE, text |-> <<>>, value |-> v]
CurrencyInputs ==
    { StrVal(s) : s \in Texts } \cup { OtherVal(<<>>), OtherVal(<< Norm(15, -1) >>) }

\* Lines 28-54. <<>> is None, <<x>> the float x.
CleanCurrencyValue_no_scale(val) ==
    IF val.is_str
      THEN LET v == Strip(RemoveChar(RemoveChar(val.text, "$"), ","))
           IN  IF Lower(v) = <<"n", "o", "n", "e">> \/ v = <<>> THEN <<>>
               ELSE IF Contains(v, "B") THEN ParseFloat(RemoveChar(v, "B"))
               ELSE IF Contains(v, "M") THEN ParseFloat(RemoveChar(v, "M"))
               ELSE ParseFloat(v)
      ELSE val.value
CleanCurrencyValue(val) ==
    IF val.is_str
      THEN LET v == Strip(RemoveChar(RemoveChar(val.text, "$"), ","))
           IN  IF Lower(v) = <<"n", "o", "n", "e">> \/ v = <<>> THEN <<>>
               ELSE IF Contains(v, "B")
                      THEN LET x == ParseFloat(RemoveChar(v, "B"))
                           IN  IF x = <<>> THEN <<>> ELSE << Times1000(x[1]) >>
               ELSE IF Contains(v, "M") THEN ParseFloat(RemoveChar(v, "M"))
               ELSE ParseFloat(v)
      ELSE val.value

\* ------------------------------------------------------------ the cycle
Tables == [ dim_date              |-> dim_date,
            dim_company           |-> dim_company,
            fact_unicorn_snapshot |-> fact_unicorn_snapshot ]

NotCalled == [called |-> FALSE, result |-> <<>>]

\* The state of the loop before its first pass.
LoopInit ==
    /\ pc = "start"
    /\ cycle = 1
    /\ status = "Running"
    /\ failed_at = ""
    /\ df_transformed = <<>>
    /\ clock = 1
    /\ load_date = 0
    /\ existing_date_map = EmptyMap
    /\ load_date_key = NaN
    /\ dates_inserted = 0
    /\ company_key = <<>>
    /\ company_key_dtype = ""
    /\ comp_pos = 1
    /\ fact_pos = 1
    /\ rows_inserted_company = 0
    /\ rows_updated_company = 0
    /\ rows_inserted_fact = 0
    /\ rows_skipped_fact = 0
    /\ comp_log = <<>>
    /\ fact_log = <<>>
    /\ dim_date = {}
    /\ dim_company = {}
    /\ fact_unicorn_snapshot = EmptyBag
    /\ date_key_seq = 1
    /\ company_key_seq = 1
    /\ cycle_start = [dim_date |-> {}, dim_company |-> {}, fact_unicorn_snapshot |-> EmptyBag]
    /\ prev_run = <<>>
    /\ prev_date_run = <<>>

Init ==
    /\ LoopInit
    /\ val_str = StrVal(<<>>)
    /\ cleaned = NotCalled

\* The handlers of lines 255-261: the exception ends the cycle, the loop goes
\* on to the sleep of line 264.
Raise_fatal(at) ==
    /\ pc' = "crashed"
    /\ status' = "Aborted"
    /\ failed_at' = at
Raise(at) ==
    /\ pc' = "sleep"
    /\ status' = "Aborted"
    /\ failed_at' = at

LoadCsv_no_empty_check(batch) ==
    /\ pc = "start"
    /\ df_transformed' = batch
    /\ pc' = "dates"
    /\ status' = "Running"
    /\ load_date' = clock
    /\ company_key' = [i \in 1 .. Len(batch) |-> NaN]
    /\ cycle_start' = Tables
    /\ UNCHANGED <<cycle, clock, failed_at, date_state, company_key_dtype, comp_pos,
                   rows_inserted_company, rows_updated_company, comp_log, fact_state,
                   db, prev_run, prev_date_run>>
    /\ UNCHANGED currency
\* Lines 58-71 and 90-121: read the file; an empty frame ends the cycle.
LoadCsv(batch) ==
    /\ pc = "start"
    /\ df_transformed' = batch
    /\ IF batch = <<>>
         THEN /\ pc' = "sleep"
              /\ status' = "EmptyBatch"
              /\ UNCHANGED <<load_date, company_key>>
         ELSE /\ pc' = "dates"
              /\ status' = "Running"
              /\ load_date' = clock
              /\ company_key' = [i \in 1 .. Len(batch) |-> NaN]
    /\ cycle_start' = Tables
    /\ UNCHANGED <<cycle, clock, failed_at, date_state, company_key_dtype, comp_pos,
                   rows_inserted_company, rows_updated_company, comp_log, fact_state,
                   db, prev_run, prev_date_run>>
    /\ UNCHANGED currency

\* pd.read_csv raises (line 66), caught at line 260.
LoadCsvRaises ==
    /\ pc = "start"
    /\ Raise("read_csv")
    /\ cycle_start' = Tables
    /\ UNCHANGED <<cycle, frame, date_state, company_state, fact_state, db,
                   prev_run, prev_date_run>>
    /\ UNCHANGED currency

\* db_engine.connect() raises (line 131), caught at lines 255-258.
ConnectRaises ==
    /\ pc = "dates"
    /\ IsMissing(load_date_key)
    /\ Raise("connect")
    /\ UNCHANGED <<cycle, frame, date_state, company_state, fact_state, db, history>>
    /\ UNCHANGED currency

\* ---------------------------------------------------------- the date step
UniqueDates == {load_date}

\* A call of the date step raises (lines 145-155): nothing catches it before
\* the handlers of lines 255-258, so the company and fact steps do not run.
DateStepRaises_swallowed(at) ==
    /\ pc' = "companies"
    /\ failed_at' = at
    /\ UNCHANGED status
DateStepRaises(at) == Raise(at)

\* Lines 133-159 when a call raises. "select": the SELECT of line 145;
\* "insert": to_sql of line 151; "commit": line 152 (the sequence value is
\* spent, the row is not stored); "requery": the SELECT of line 155 (the new
\* row is already committed).
DateStepFailed(at) ==
    /\ pc = "dates"
    /\ at \in {"dim_date select", "dim_date insert", "dim_date commit", "dim_date requery"}
    /\ LET found == SelectDateMap(dim_date)
           new_dates_to_insert == NewDatesToInsert(UniqueDates, found)
       IN  /\ (at # "dim_date select") => (new_dates_to_insert # {})
           /\ dim_date' = IF at = "dim_date requery"
                            THEN AppendDates(dim_date, new_dates_to_insert, date_key_seq)
                            ELSE dim_date
           /\ date_key_seq' = IF at \in {"dim_date commit", "dim_date requery"}
                                THEN date_key_seq + 1
                                ELSE date_key_seq
    /\ DateStepRaises(at)
    /\ UNCHANGED <<cycle, frame, date_state, company_state, fact_state, dim_company,
                   fact_unicorn_snapshot, company_key_seq, history>>
    /\ UNCHANGED currency

\* Lines 133-159 when no call raises: insert the load date unless dim_date
\* has it, read the keys back, map load_date to its key.
DateStepOk ==
    /\ pc = "dates"
    /\ LET found == SelectDateMap(dim_date)
           new_dates_to_insert == NewDatesToInsert(UniqueDates, found)
           stored == AppendDates(dim_date, new_dates_to_insert, date_key_seq)
           date_map == MergeDates(found, RequeryDates(stored, new_dates_to_insert))
       IN  /\ dim_date' = stored
           /\ date_key_seq' = date_key_seq + Cardinality(new_dates_to_insert)
           /\ dates_inserted' = Cardinality(new_dates_to_insert)
           /\ existing_date_map' = date_map
           /\ load_date_key' = IF load_date \in DOMAIN date_map
                                 THEN KeyCell(date_map[load_date])
                                 ELSE NaN
    /\ pc' = "companies"
    /\ UNCHANGED <<cycle, status, failed_at, frame, company_state, fact_state,
                   dim_company, fact_unicorn_snapshot, company_key_seq, history>>
    /\ UNCHANGED currency

\* ------------------------------------------------------- the company step
CompanyIndex == DimCompanyDf(df_transformed)[comp_pos]
CompanyRowData == df_transformed[CompanyIndex]

\* Line 208 and lines 212-216 follow the last company.
AfterCompany ==
    /\ comp_pos' = comp_pos + 1
    /\ pc' = IF comp_pos = Len(DimCompanyDf(df_transformed)) THEN "facts" ELSE "companies"

\* Lines 170-201 when no call raises.
CompanyRowCommitted ==
    /\ pc = "companies"
    /\ comp_pos <= Len(DimCompanyDf(df_transformed))
    /\ LET name == CompanyRowData.company_name
           result == LookupCompany(dim_company, name)
       IN  IF result # {}
             THEN LET key == CHOOSE k \in result : TRUE
                  IN  /\ dim_company' = UpdateCompany(dim_company, CompanyRowData)
                      /\ rows_updated_company' = rows_updated_company + 1
                      /\ company_key' = AssignKey(company_key, df_transformed, name, key)
                      /\ comp_log' = Append(comp_log, "updated")
                      /\ UNCHANGED <<rows_inserted_company, company_key_seq>>
             ELSE /\ dim_company' =
                        dim_company \cup {CompanyRowOf(company_key_seq, CompanyRowData)}
                  /\ company_key_seq' = company_key_seq + 1
                  /\ rows_inserted_company' = rows_inserted_company + 1
                  /\ company_key' =
                        AssignKey(company_key, df_transformed, name, company_key_seq)
                  /\ comp_log' = Append(comp_log, "inserted")
                  /\ UNCHANGED rows_updated_company
    /\ company_key_dtype' = IF company_key_dtype = "" THEN "float64" ELSE company_key_dtype
    /\ AfterCompany
    /\ UNCHANGED <<cycle, status, failed_at, frame, date_state, fact_state, dim_date,
                   fact_unicorn_snapshot, date_key_seq, history>>
    /\ UNCHANGED currency

\* The handler of lines 203-207: roll back, blank the key of the company, go on
\* with the next company.
CompanyRowHandler_reraise(at, dtype_before) ==
    /\ Raise(at)
    /\ comp_log' = Append(comp_log, at)
    /\ UNCHANGED <<company_key, company_key_dtype, comp_pos>>
CompanyRowHandler_keeps_key(at, dtype_before) ==
    /\ LET name == CompanyRowData.company_name
           result == LookupCompany(dim_company, name)
           key == IF result # {} THEN CHOOSE k \in result : TRUE ELSE company_key_seq
       IN  company_key' = IF at = "dim_company commit"
                            THEN AssignKey(company_key, df_transformed, name, key)
                            ELSE company_key
    /\ company_key_dtype' = dtype_before
    /\ comp_log' = Append(comp_log, at)
    /\ AfterCompany
    /\ UNCHANGED <<status, failed_at>>
CompanyRowHandler(at, dtype_before) ==
    /\ \E dtype \in DtypeAfterNone(dtype_before) :
          /\ company_key_dtype' = dtype
          /\ company_key' = AssignNone(company_key, df_transformed,
                                       CompanyRowData.company_name, dtype)
    /\ comp_log' = Append(comp_log, at)
    /\ AfterCompany
    /\ UNCHANGED <<status, failed_at>>

\* Lines 170-207 when a call raises. "execute": the SELECT of line 172, the
\* UPDATE of line 188 or the INSERT of line 196 is refused; "commit": line 201,
\* after the statement ran (an INSERT spent a sequence value) and the counter
\* and the key of line 199 were set (which creates the company_key column as
\* float64 when it did not exist). The rollback of line 204 undoes the
\* statement: nothing of the company is stored.
CompanyRowFailed(at) ==
    /\ pc = "companies"
    /\ comp_pos <= Len(DimCompanyDf(df_transformed))
    /\ at \in {"dim_company execute", "dim_company commit"}
    /\ LET result == LookupCompany(dim_company, CompanyRowData.company_name)
           counted == IF at = "dim_company commit" THEN 1 ELSE 0
           working == IF at # "dim_company commit"
                        THEN dim_company
                        ELSE IF result # {}
                               THEN UpdateCompany(dim_company, CompanyRowData)
                               ELSE dim_company
                                      \cup {CompanyRowOf(company_key_seq, CompanyRowData)}
       IN  /\ dim_company' = Rollback(dim_company, working)
           /\ rows_updated_company' =
                 rows_updated_company + (IF result # {} THEN counted ELSE 0)
           /\ rows_inserted_company' =
                 rows_inserted_company + (IF result = {} THEN counted ELSE 0)
           /\ company_key_seq' =
                 IF result = {} /\ at = "dim_company commit"
                   THEN company_key_seq + 1
                   ELSE company_key_seq
    /\ CompanyRowHandler(at, IF at = "dim_company commit" /\ company_key_dtype = ""
                                THEN "float64"
                                ELSE company_key_dtype)
    /\ UNCHANGED <<cycle, frame, date_state, fact_state, dim_date,
                   fact_unicorn_snapshot, date_key_seq, history>>
    /\ UNCHANGED currency

\* ---------------------------------------------------------- the fact step
FactRowData == df_transformed[fact_pos]
FactKeyCell == company_key[fact_pos]

\* Line 253 follows the last row: the cycle is complete.
AfterFact ==
    /\ fact_pos' = fact_pos + 1
    /\ IF fact_pos = Len(df_transformed)
         THEN pc' = "sleep" /\ status' = "Completed"
         ELSE UNCHANGED <<pc, status>>

\* Lines 219-222: `is None` holds of the Python None alone, not of NaN.
FactRowSkipped ==
    /\ pc = "facts"
    /\ fact_pos <= Len(df_transformed)
    /\ (FactKeyCell = PyNone \/ load_date_key = PyNone)
    /\ rows_skipped_fact' = rows_skipped_fact + 1
    /\ fact_log' = Append(fact_log, "skipped")
    /\ AfterFact
    /\ UNCHANGED <<cycle, failed_at, frame, date_state, company_state,
                   rows_inserted_fact, db, history>>
    /\ UNCHANGED currency

\* Line 224, outside the try of line 226: int(NaN) raises ValueError, which the
\* handler of line 257 catches; the rest of the fact loop does not run.
FactRowKeyRaises ==
    /\ pc = "facts"
    /\ fact_pos <= Len(df_transformed)
    /\ ~(FactKeyCell = PyNone \/ load_date_key = PyNone)
    /\ FactKeyCell = NaN
    /\ Raise("int(company_key)")
    /\ UNCHANGED <<cycle, frame, date_state, company_state, fact_state, db, history>>
    /\ UNCHANGED currency

\* Lines 226-245 when no call raises (rowcount is 1 for an insert and for an
\* update on conflict).
FactRowWritten ==
    /\ pc = "facts"
    /\ fact_pos <= Len(df_transformed)
    /\ ~IsMissing(FactKeyCell)
    /\ load_date_key # PyNone
    /\ fact_unicorn_snapshot' =
          UpsertFact(fact_unicorn_snapshot,
                     FactRowOf(load_date_key.v, FactKeyCell.v, FactRowData))
    /\ rows_inserted_fact' = rows_inserted_fact + 1
    /\ fact_log' = Append(fact_log, "written")
    /\ AfterFact
    /\ UNCHANGED <<cycle, failed_at, frame, date_state, company_state, rows_skipped_fact,
                   dim_date, dim_company, date_key_seq, company_key_seq, history>>
    /\ UNCHANGED currency

\* The handler of lines 247-251: roll back, count a skip, go on with the next
\* row.
FactRowHandler_reraise(at) ==
    /\ Raise(at)
    /\ fact_log' = Append(fact_log, at)
    /\ UNCHANGED <<fact_pos, rows_skipped_fact>>
FactRowHandler(at) ==
    /\ rows_skipped_fact' = rows_skipped_fact + 1
    /\ fact_log' = Append(fact_log, at)
    /\ AfterFact
    /\ UNCHANGED failed_at

\* Lines 226-251 when a call raises. "execute": line 240; "commit": line 245,
\* after the statement ran and line 242 counted the row. The rollback of line
\* 248 undoes the statement.
FactRowFailed(at) ==
    /\ pc = "facts"
    /\ fact_pos <= Len(df_transformed)
    /\ ~IsMissing(FactKeyCell)
    /\ load_date_key # PyNone
    /\ at \in {"fact execute", "fact commit"}
    /\ rows_inserted_fact' = rows_inserted_fact + (IF at = "fact commit" THEN 1 ELSE 0)
    /\ LET working == IF at = "fact commit"
                        THEN UpsertFact(fact_unicorn_snapshot,
                                        FactRowOf(load_date_key.v, FactKeyCell.v,
                                                  FactRowData))
                        ELSE fact_unicorn_snapshot
       IN  fact_unicorn_snapshot' = Rollback(fact_unicorn_snapshot, working)
    /\ FactRowHandler(at)
    /\ UNCHANGED <<cycle, frame, date_state, company_state, dim_date, dim_company,
                   date_key_seq, company_key_seq, history>>
    /\ UNCHANGED currency

\* --------------------------------------------------------- the outer loop
CompanyFailures == {"dim_company execute", "dim_company commit"}
FactFailures == {"fact execute", "fact commit"}

\* The cycle completed and no call of it raised.
RanClean ==
    /\ status = "Completed"
    /\ \A k \in 1 .. Len(comp_log) : comp_log[k] \notin CompanyFailures
    /\ \A k \in 1 .. Len(fact_log) : fact_log[k] = "written"

\* Lines 263-264 and 57-61: sleep, then the next pass starts from a fresh frame.
\* The next pass runs `days` days later; 0 is a pass of the same day (the
\* script started again).
Sleep(days) ==
    /\ pc = "sleep"
    /\ clock + days \in Dates
    /\ clock' = clock + days
    /\ cycle < MaxCycles
    /\ pc' = "start"
    /\ cycle' = cycle + 1
    /\ status' = "Running"
    /\ failed_at' = ""
    /\ df_transformed' = <<>>
    /\ load_date' = 0
    /\ existing_date_map' = EmptyMap
    /\ load_date_key' = NaN
    /\ dates_inserted' = 0
    /\ company_key' = <<>>
    /\ company_key_dtype' = ""
    /\ comp_pos' = 1
    /\ fact_pos' = 1
    /\ rows_inserted_company' = 0
    /\ rows_updated_company' = 0
    /\ rows_inserted_fact' = 0
    /\ rows_skipped_fact' = 0
    /\ comp_log' = <<>>
    /\ fact_log' = <<>>
    /\ prev_run' = IF RanClean
                     THEN << [ input       |-> df_transformed,
                               load_date   |-> load_date,
                               n_dates     |-> Cardinality(dim_date),
                               n_companies |-> Cardinality(dim_company),
                               n_facts     |-> BagCardinality(fact_unicorn_snapshot) ] >>
                     ELSE <<>>
    /\ prev_date_run' = IF ~IsMissing(load_date_key)
                          THEN << [ dates |-> {load_date}, map |-> existing_date_map ] >>
                          ELSE prev_date_run
    /\ UNCHANGED <<db, cycle_start>>
    /\ UNCHANGED currency

Next ==
    \/ \E batch \in Batches : LoadCsv(batch)
    \/ LoadCsvRaises
    \/ ConnectRaises
    \/ DateStepOk
    \/ \E at \in {"dim_date select", "dim_date insert", "dim_date commit",
                  "dim_date requery"} : DateStepFailed(at)
    \/ CompanyRowCommitted
    \/ \E at \in CompanyFailures : CompanyRowFailed(at)
    \/ FactRowSkipped
    \/ FactRowKeyRaises
    \/ FactRowWritten
    \/ \E at \in FactFailures : FactRowFailed(at)
    \/ \E days \in 0 .. MaxDates : Sleep(days)

Spec == Init /\ [][Next]_vars

\* clean_currency_value applied to one value (line 96 applies it to every cell
\* of the two currency columns).
ApplyCleanCurrencyValue ==
    /\ ~cleaned.called
    /\ cleaned' = [called |-> TRUE, result |-> CleanCurrencyValue(val_str)]
    /\ UNCHANGED <<pc, cycle, status, failed_at, frame, date_state, company_state,
                   fact_state, db, history, val_str>>

CurrencyInit ==
    /\ LoopInit
    /\ val_str \in CurrencyInputs
    /\ cleaned = NotCalled

CurrencyNext == ApplyCleanCurrencyValue

CurrencySpec == CurrencyInit /\ [][CurrencyNext]_vars

\* The interpreter keeps executing the loop: a step that can be taken is taken,
\* and time.sleep returns.
FairSpec == Spec /\ WF_vars(Next)

\* ================================================================ claims
\* The rows of the batch that carry the company name of row i.
SameCompany(i, j) ==
    df_transformed[i].company_name = df_transformed[j].company_name

\* The stored fact rows of the load date of the cycle and the company of row i.
StoredFor(i) ==
    { r \in BagToSet(fact_unicorn_snapshot) :
        r.load_date_key = load_date_key.v /\ r.company_key = company_key[i].v }

\* The date step of the cycle has completed.
DateStepDone == ~IsMissing(load_date_key)

\* The company loop of the cycle has processed every company of the batch.
CompanyStepDone ==
    DateStepDone /\ Len(comp_log) = Len(DimCompanyDf(df_transformed))

\* C1: dim_date never holds two rows of the same full_date, whatever cycles
\* ran, repeated the load date or aborted.
DimDateUniqueFullDate ==
    \A r \in dim_date : \A q \in dim_date : r.full_date = q.full_date => r = q

\* C1 witness: a later cycle went through the date step on a date dim_date
\* already held, and inserted nothing.
DateAlreadyStored ==
    /\ cycle >= 2
    /\ pc = "companies"
    /\ dates_inserted = 0
    /\ load_date \in { r.full_date : r \in cycle_start.dim_date }

\* C2: fact_unicorn_snapshot never holds two rows of the same
\* (load_date_key, company_key).
FactUniqueKey ==
    \A r \in BagToSet(fact_unicorn_snapshot) :
        /\ CopiesIn(r, fact_unicorn_snapshot) = 1
        /\ \A q \in BagToSet(fact_unicorn_snapshot) : SameFactKey(r, q) => r = q

\* C2 witness: two rows of one company were both written in one cycle, the
\* second onto the row the first had created.
FactWrittenTwiceInCycle ==
    /\ Len(fact_log) >= 2
    /\ fact_log[1] = "written"
    /\ fact_log[2] = "written"
    /\ SameCompany(1, 2)
    /\ df_transformed[1] # df_transformed[2]
    /\ Cardinality(StoredFor(2)) = 1

\* C3: when the fact step ends, rows_inserted_fact + rows_skipped_fact is the
\* number of candidate fact rows of the batch.
FactCountsCoverBatch ==
    (pc = "sleep" /\ status = "Completed")
        => rows_inserted_fact + rows_skipped_fact = Len(df_transformed)

\* C4: a company whose storage call raised has a missing key in every row of
\* the batch that carries its name, the loop goes on to the companies after it,
\* and the exception never ends the cycle.
CompanyFailureIsolated ==
    /\ \A k \in 1 .. Len(comp_log) :
          comp_log[k] \in CompanyFailures
            => \A i \in 1 .. Len(df_transformed) :
                  SameCompany(i, DimCompanyDf(df_transformed)[k])
                    => IsMissing(company_key[i])
    /\ (pc = "facts" \/ (pc = "sleep" /\ DateStepDone))
          => Len(comp_log) = Len(DimCompanyDf(df_transformed))
    /\ failed_at \notin CompanyFailures

\* C4 witness: a company failed and the company after it was processed.
CompanyProcessedAfterFailure ==
    \E k \in 1 .. Len(comp_log) : comp_log[k] \in CompanyFailures /\ k < Len(comp_log)

\* C5: when the insert into dim_date (or its commit) raises, the cycle is
\* aborted with dim_company and the fact table as the cycle found them, and
\* neither loop has run.
DateInsertFailureAbortsCycle ==
    failed_at \in {"dim_date insert", "dim_date commit"}
        => /\ pc = "sleep"
           /\ status = "Aborted"
           /\ dim_company = cycle_start.dim_company
           /\ fact_unicorn_snapshot = cycle_start.fact_unicorn_snapshot
           /\ comp_log = <<>>
           /\ fact_log = <<>>

\* C5 witness: the insert of a new date raised in a cycle that found companies
\* and facts stored.
DateInsertFailedOnLoadedStore ==
    /\ failed_at = "dim_date insert"
    /\ cycle_start.dim_company # {}
    /\ cycle_start.fact_unicorn_snapshot # EmptyBag

\* C6: a cycle whose date step succeeded ends Completed, with every company
\* and every fact row processed.
CycleCompletesAfterDateStep ==
    (pc = "sleep" /\ DateStepDone)
        => /\ status = "Completed"
           /\ Len(comp_log) = Len(DimCompanyDf(df_transformed))
           /\ Len(fact_log) = Len(df_transformed)

\* C7: a fact row whose key is missing is counted as skipped and the loop has
\* moved past it, with nothing stored for it.
MissingKeyRowSkipped ==
    \A i \in 1 .. Len(df_transformed) :
        (CompanyStepDone /\ IsMissing(company_key[i]) /\ (fact_pos > i \/ pc = "sleep"))
            => /\ Len(fact_log) >= i
               /\ fact_log[i] = "skipped"

\* C8: a clean cycle that repeats the input and the load date of the clean
\* cycle before it leaves as many dim_date, dim_company and fact rows as that
\* cycle left, one fact row per company of the batch, holding the values of the
\* last row of the company.
RerunLeavesSameRows ==
    (pc = "sleep" /\ RanClean /\ prev_run # <<>>
       /\ prev_run[1].input = df_transformed /\ prev_run[1].load_date = load_date)
        => /\ Cardinality(dim_date) = prev_run[1].n_dates
           /\ Cardinality(dim_company) = prev_run[1].n_companies
           /\ BagCardinality(fact_unicorn_snapshot) = prev_run[1].n_facts
           /\ \A i \in 1 .. Len(df_transformed) :
                 (\A j \in (i + 1) .. Len(df_transformed) : ~SameCompany(i, j))
                   => /\ StoredFor(i) = { FactRowOf(load_date_key.v, company_key[i].v,
                                                    df_transformed[i]) }
                      /\ \A r \in StoredFor(i) : CopiesIn(r, fact_unicorn_snapshot) = 1

\* C8 witness: such a second clean cycle, with two companies, has ended.
RerunHappened ==
    /\ pc = "sleep"
    /\ RanClean
    /\ prev_run # <<>>
    /\ prev_run[1].input = df_transformed
    /\ prev_run[1].load_date = load_date
    /\ Len(DimCompanyDf(df_transformed)) = 2

\* C9: the stored fact row of (load date, company) is the record of the latest
\* row of that company this cycle wrote without failure, all six values.
LastWriteWins ==
    \A i \in 1 .. Len(fact_log) :
        (/\ fact_log[i] = "written"
         /\ \A j \in (i + 1) .. Len(fact_log) :
               ~(fact_log[j] = "written" /\ SameCompany(i, j)))
            => StoredFor(i) = { FactRowOf(load_date_key.v, company_key[i].v,
                                          df_transformed[i]) }

\* C9 witness: a row was written over the row an earlier cycle had stored for
\* the same load date and company with other values.
OverwroteEarlierCycle ==
    \E i \in 1 .. Len(fact_log) :
        /\ fact_log[i] = "written"
        /\ \E r \in BagToSet(cycle_start.fact_unicorn_snapshot) :
              /\ r.load_date_key = load_date_key.v
              /\ r.company_key = company_key[i].v
              /\ r.valuation_billion # df_transformed[i].valuation_billion

\* C10: a date step that follows a completed date step on the same load dates
\* inserts nothing and maps each of the dates to the key the earlier step gave.
DateStepIdempotent ==
    (DateStepDone /\ prev_date_run # <<>> /\ prev_date_run[1].dates = {load_date})
        => /\ dates_inserted = 0
           /\ dim_date = cycle_start.dim_date
           /\ \A d \in prev_date_run[1].dates :
                 /\ d \in DOMAIN existing_date_map
                 /\ existing_date_map[d] = prev_date_run[1].map[d]

\* C10 witness: the date step ran a second time on the same load date.
DateStepRepeated ==
    /\ DateStepDone
    /\ prev_date_run # <<>>
    /\ prev_date_run[1].dates = {load_date}

\* The stored dim_company rows of a company name.
CompanyRows(table, name) == { r \in table : r.company_name = name }

\* C11: dim_company never holds two rows of one company_name, and no step
\* removes a stored company or changes its surrogate key.
CompanyKeysKept ==
    [][ /\ \A r \in dim_company :
              \E q \in dim_company' :
                  q.company_name = r.company_name /\ q.company_key = r.company_key
        /\ \A q \in dim_company' :
              \A r \in dim_company' : q.company_name = r.company_name => q = r ]_vars

\* C11 witness: the company loop met a company dim_company already held.
ExistingCompanySeen ==
    \E k \in 1 .. Len(comp_log) : comp_log[k] = "updated"

\* C12: the step that updates an existing company leaves its stored row with
\* the six attributes of the batch row under the key it had, and counts one
\* update.
ExistingCompanyOverwritten ==
    [][ (/\ Len(comp_log') = Len(comp_log) + 1
         /\ comp_log'[Len(comp_log')] = "updated")
            => /\ CompanyRows(dim_company, CompanyRowData.company_name) # {}
               /\ CompanyRows(dim_company', CompanyRowData.company_name)
                    = { CompanyRowOf(r.company_key, CompanyRowData) :
                          r \in CompanyRows(dim_company, CompanyRowData.company_name) }
               /\ rows_updated_company' = rows_updated_company + 1
               /\ rows_inserted_company' = rows_inserted_company ]_vars

\* C12 witness: a company was updated with the very values its stored row
\* held when the cycle began, and was counted.
UpdatedWithEqualValues ==
    \E k \in 1 .. Len(comp_log) :
        /\ comp_log[k] = "updated"
        /\ rows_updated_company >= 1
        /\ \E r \in cycle_start.dim_company :
              r = CompanyRowOf(r.company_key, df_transformed[DimCompanyDf(df_transformed)[k]])

\* C13: an empty batch ends the cycle before any reconciliation, with the three
\* tables as the cycle found them, and the loop can go on to its next pass.
EmptyBatchStopsCycle ==
    (pc # "start" /\ df_transformed = <<>> /\ failed_at # "read_csv")
        => /\ pc = "sleep"
           /\ status = "EmptyBatch"
           /\ Tables = cycle_start
           /\ comp_log = <<>>
           /\ fact_log = <<>>
           /\ (cycle < MaxCycles => ENABLED Sleep(0))

\* C13 witness: an empty batch arrived at a store that held companies and facts.
EmptyBatchOnLoadedStore ==
    /\ status = "EmptyBatch"
    /\ cycle_start.dim_company # {}
    /\ cycle_start.fact_unicorn_snapshot # EmptyBag

\* The batch row of the k-th company of the company loop.
CompanyBatchRow(k) == df_transformed[DimCompanyDf(df_transformed)[k]]

\* C16: while the cycle goes on, a company whose sub-transaction failed has the
\* rows it had when the cycle began, every company processed without failure has
\* its row as written from the batch, and the date row of the cycle is stored.
CompanyFailureUndoesOnlyItself ==
    \A k \in 1 .. Len(comp_log) :
        /\ comp_log[k] \in CompanyFailures
              => /\ CompanyRows(dim_company, CompanyBatchRow(k).company_name)
                      = CompanyRows(cycle_start.dim_company, CompanyBatchRow(k).company_name)
                 /\ \E d \in dim_date :
                       d.full_date = load_date /\ d.date_key = load_date_key.v
                 /\ cycle_start.dim_date \subseteq dim_date
        /\ comp_log[k] \notin CompanyFailures
              => \E r \in dim_company : r = CompanyRowOf(r.company_key, CompanyBatchRow(k))

\* C16 witness: a company failed at commit after an earlier company of the
\* same cycle was written, in a cycle that inserted its date.
CompanyFailedAfterEarlierWrite ==
    /\ Len(comp_log) = 2
    /\ comp_log[1] \in {"inserted", "updated"}
    /\ comp_log[2] = "dim_company commit"
    /\ dim_date # cycle_start.dim_date

\* C17: the step in which a fact row fails leaves the three tables as they
\* were, counts one skipped row and moves on to the next row, or completes the
\* cycle after the last one.
FactFailureUndoesOnlyItself ==
    [][ (/\ Len(fact_log') = Len(fact_log) + 1
         /\ fact_log'[Len(fact_log')] \in FactFailures)
            => /\ fact_unicorn_snapshot' = fact_unicorn_snapshot
               /\ dim_company' = dim_company
               /\ dim_date' = dim_date
               /\ rows_skipped_fact' = rows_skipped_fact + 1
               /\ fact_pos' = fact_pos + 1
               /\ failed_at' = failed_at
               /\ IF fact_pos < Len(df_transformed)
                    THEN pc' = "facts" /\ status' = status
                    ELSE pc' = "sleep" /\ status' = "Completed" ]_vars

\* C17 witness: a fact row failed at commit on a store that held fact rows, and
\* the next row of the batch was written.
FactWrittenAfterFailure ==
    /\ Len(fact_log) = 2
    /\ fact_log[1] = "fact commit"
    /\ fact_log[2] = "written"
    /\ rows_skipped_fact = 1
    /\ cycle_start.fact_unicorn_snapshot # EmptyBag

\* C18: every stored fact row carries the key of a stored dim_date row and the
\* key of a stored dim_company row.
FactKeysReferToDimensions ==
    \A f \in BagToSet(fact_unicorn_snapshot) :
        /\ \E d \in dim_date : d.date_key = f.load_date_key
        /\ \E c \in dim_company : c.company_key = f.company_key

\* C18 witness: the insert of a company was rolled back at commit and a fact
\* row of the same cycle was written.
FactWrittenAfterRolledBackInsert ==
    /\ \E k \in 1 .. Len(comp_log) :
          /\ comp_log[k] = "dim_company commit"
          /\ CompanyRows(dim_company, CompanyBatchRow(k).company_name) = {}
    /\ \E j \in 1 .. Len(fact_log) : fact_log[j] = "written"

\* C19: when the company step ends, the two counters add up to the number of
\* companies of the batch that hold a key, and rows_inserted_company is the
\* number of rows the cycle added to dim_company.
CompanyCountsMatchStore ==
    (pc = "facts" /\ fact_pos = 1)
        => /\ rows_inserted_company + rows_updated_company
                = Cardinality({ k \in 1 .. Len(comp_log) :
                                  ~IsMissing(company_key[DimCompanyDf(df_transformed)[k]]) })
           /\ rows_inserted_company
                = Cardinality(dim_company) - Cardinality(cycle_start.dim_company)

\* The first and the last record of the batch that carry the company of row i.
FirstOf(i) == CHOOSE j \in 1 .. Len(df_transformed) :
                 SameCompany(i, j) /\ \A h \in 1 .. (j - 1) : ~SameCompany(i, h)
LastOf(i) == CHOOSE j \in 1 .. Len(df_transformed) :
                SameCompany(i, j) /\ \A h \in (j + 1) .. Len(df_transformed) : ~SameCompany(i, h)

CycleFailed ==
    \/ status \in {"EmptyBatch", "Aborted"}
    \/ \E k \in 1 .. Len(comp_log) : comp_log[k] \in CompanyFailures
    \/ \E k \in 1 .. Len(fact_log) : fact_log[k] \in FactFailures

\* The tables satisfy the uniqueness the statements of a cycle rely on.
StorageSound ==
    /\ \A r \in dim_date : \A q \in dim_date : r.full_date = q.full_date => r = q
    /\ \A r \in dim_company : \A q \in dim_company :
          r.company_name = q.company_name => r = q
    /\ \A r \in BagToSet(fact_unicorn_snapshot) :
          /\ CopiesIn(r, fact_unicorn_snapshot) = 1
          /\ \A q \in BagToSet(fact_unicorn_snapshot) : SameFactKey(r, q) => r = q

\* C14: whatever failure a cycle meets, the next cycle eventually starts, on
\* sound tables and able to read its batch.
FailureLeadsToNextCycle ==
    \A c \in 1 .. (MaxCycles - 1) :
        (cycle = c /\ CycleFailed)
            ~> (/\ cycle = c + 1
                /\ pc = "start"
                /\ StorageSound
                /\ \A batch \in Batches : ENABLED LoadCsv(batch))

\* C14 witness: a cycle started after a cycle that did not run clean.
CycleStartedAfterFailure ==
    /\ cycle > 1
    /\ pc = "start"
    /\ prev_run = <<>>

\* The text handed to clean_currency_value, and the text between its first
\* and last character, or before its last character.
ArgText == val_str.text
ArgInner == SubSeq(ArgText, 2, Len(ArgText) - 1)
ArgHead == SubSeq(ArgText, 1, Len(ArgText) - 1)

\* C15: on a text, clean_currency_value returns n * 1000 for `$<n>B`, n for
\* `<n>M`, n for a numeric text n, and None for "None" in any case, for the
\* empty text, and whenever what is left of the text without `$`, `,` and the
\* unit letters is not a number.
CleanCurrencyValueByForm ==
    (cleaned.called /\ val_str.is_str)
        => /\ (/\ Len(ArgText) >= 2
               /\ ArgText[1] = "$"
               /\ ArgText[Len(ArgText)] = "B"
               /\ ParseFloat(ArgInner) # <<>>)
                 => cleaned.result = << Norm(ParseFloat(ArgInner)[1].m,
                                             ParseFloat(ArgInner)[1].e + 3) >>
           /\ (/\ Len(ArgText) >= 1
               /\ ArgText[Len(ArgText)] = "M"
               /\ ParseFloat(ArgHead) # <<>>)
                 => cleaned.result = ParseFloat(ArgHead)
           /\ ParseFloat(ArgText) # <<>> => cleaned.result = ParseFloat(ArgText)
           /\ (ArgText = <<>> \/ Lower(ArgText) = <<"n", "o", "n", "e">>)
                 => cleaned.result = <<>>
           /\ ParseFloat(RemoveChar(RemoveChar(RemoveChar(RemoveChar(
                  ArgText, "$"), ","), "B"), "M")) = <<>>
                 => cleaned.result = <<>>

\* C15 witness: "$.5B" was cleaned to 500.
HalfBillionCleaned ==
    /\ cleaned.called
    /\ ArgText = <<"$", ".", "5", "B">>
    /\ cleaned.result = << [m |-> 5, e |-> 2] >>

====
